---- MODULE Spec2Model ----
(***************************************************************************)
(* Model of the smoothbrain pytest plugin (src/smoothbrain/__init__.py):   *)
(* the reference-counted Machine, the VixMachine lifecycle operations and  *)
(* the pytest hooks that drive them.                                       *)
(*                                                                         *)
(* Two specifications are given.  Spec is a pytest session driven through  *)
(* the hooks; ApiSpec calls Machine.acquire / Machine.release directly in  *)
(* any order, as a client of the class may.                                *)
(***************************************************************************)
EXTENDS Integers, Sequences, FiniteSets, TLC

\* ------------------------------------------------------------------ bounds
NumFuncs == 2        \* collected test functions
MaxApiCalls == 4     \* direct acquire/release calls per machine (ApiSpec)

\* the VM descriptors a pattern can match, in the order glob.glob lists them
PathOrder == <<"A", "B">>
Paths == {PathOrder[i] : i \in DOMAIN PathOrder}
Funcs == 1..NumFuncs
NoTarget == "-"      \* machine slot of an item that has no "target" funcarg

VARIABLES
    phase,          \* "start", "collect", "run", "finished", "aborted", "api"
    pattern,        \* --pattern: FALSE when absent, else TRUE
    globbed,        \* the paths glob.glob(pattern) yields
    snapshotOpt,    \* --snapshot given (VixMachine.snapshot is truthy)
    machines,       \* the module-level list `machines`
    count,          \* Machine.count, per machine of the pool
    initialized,    \* Machine.initialized, per machine of the pool
    vm,             \* backend state of each VM: is_running, differs from the baseline,
                    \* and whether a unit body has used it in this session
    fixturenames,   \* per test function: "target" in metafunc.fixturenames
    generated,      \* test functions pytest_generate_tests has been called for
    items,          \* collected items <<func, machine>> and their progress
    teardowns,      \* per machine: number of teardown() invocations
    lastCall,       \* per machine: what pytest_runtest_call did for the item in progress
    leakReported,   \* machines reported as leaked at session end
    api             \* per machine: acquire/release calls made so far, and the last one

vars == <<phase, pattern, globbed, snapshotOpt, machines, count, initialized, vm,
          fixturenames, generated, items, teardowns, lastCall, leakReported, api>>

\* ------------------------------------------------------------ small helpers
InSet(S, p) == p \in S
SetToSeq(S) == SelectSeq(PathOrder, LAMBDA p : InSet(S, p))

Range(s) == {s[i] : i \in DOMAIN s}
Pool == Range(machines)

NoLast == [ops |-> <<>>, err |-> "none", wasInit |-> FALSE, unit |-> <<0, NoTarget>>]
NoApi == [acq |-> 0, rel |-> 0, under |-> FALSE,
          op |-> "none", pre |-> 0, td |-> FALSE, err |-> "none",
          tdOps |-> <<>>, tdErr |-> "none"]

\* ------------------------------------------------------- backend (vix) calls
\* An execution context threads the VM state through the backend calls one
\* hook makes.  `fail` is the ordinal of the backend call that raises (0: none);
\* once a call has raised, the exception propagates and later calls are skipped.
Exec(v) == [running |-> v.running, dirty |-> v.dirty, ops |-> <<>>, err |-> "none", n |-> 0]

\* the VM as the backend calls of a hook left it
After(v, ex) == [v EXCEPT !.running = ex.running, !.dirty = ex.dirty]

ErrorOf(op) == IF op = "wait_for_tools" THEN "ReadinessTimeout" ELSE "BackendError"

BackendCall(ex, who, op, fail, running2, dirty2) ==
    IF ex.err # "none" THEN ex
    ELSE IF ex.n + 1 = fail
         THEN [ex EXCEPT !.n = @ + 1, !.ops = Append(@, <<who, op>>), !.err = ErrorOf(op)]
         ELSE [running |-> running2, dirty |-> dirty2,
               ops |-> Append(ex.ops, <<who, op>>), err |-> "none", n |-> ex.n + 1]

\* template.power_on(launch_gui=True)
PowerOn(ex, who, fail) == BackendCall(ex, who, "power_on", fail, TRUE, ex.dirty)

\* template.wait_for_tools(timeout=60)
WaitForTools(ex, who, fail) == BackendCall(ex, who, "wait_for_tools", fail, ex.running, ex.dirty)

\* template.snapshot_revert(snapshot): restores the baseline, which powers the VM off
SnapshotRevert(ex, who, fail) == BackendCall(ex, who, "snapshot_revert", fail, FALSE, FALSE)

\* ------------------------------------------------------------- VixMachine
VixSetupAlwaysPowerOn(ex, fail) ==
    WaitForTools(PowerOn(ex, "setup", fail), "setup", fail)

\* VixMachine.setup
VixSetup(ex, fail) ==
    LET e1 == IF ex.err = "none" /\ ~ex.running THEN PowerOn(ex, "setup", fail) ELSE ex
    IN WaitForTools(e1, "setup", fail)

VixResetWithoutRevert(ex, snap, fail) ==
    LET e2 == IF ex.err = "none" /\ ~ex.running THEN PowerOn(ex, "reset", fail) ELSE ex
    IN WaitForTools(e2, "reset", fail)

\* VixMachine.reset
VixReset(ex, snap, fail) ==
    LET e1 == IF snap THEN SnapshotRevert(ex, "reset", fail) ELSE ex
        e2 == IF e1.err = "none" /\ ~e1.running THEN PowerOn(e1, "reset", fail) ELSE e1
    IN WaitForTools(e2, "reset", fail)

VixTeardownWithPowerOff(ex, snap, fail) ==
    LET e1 == IF snap THEN SnapshotRevert(ex, "teardown", fail) ELSE ex
    IN IF e1.err = "none" /\ e1.running
       THEN BackendCall(e1, "teardown", "power_off", fail, FALSE, e1.dirty)
       ELSE e1

\* VixMachine.teardown
VixTeardown(ex, snap, fail) ==
    IF snap THEN SnapshotRevert(ex, "teardown", fail) ELSE ex

\* ----------------------------------------------------------------- Machine
\* Machine.acquire
Acquire(c) == c + 1

ReleaseBeforeLast(c, v, snap, fail) ==
    LET c2 == c - 1
    IN IF c2 = 1
       THEN [count |-> c2, td |-> TRUE, ex |-> VixTeardown(Exec(v), snap, fail)]
       ELSE [count |-> c2, td |-> FALSE, ex |-> Exec(v)]

ReleaseTeardownFirst(c, v, snap, fail) ==
    IF c - 1 = 0
    THEN LET e == VixTeardown(Exec(v), snap, fail)
         IN [count |-> IF e.err = "none" THEN c - 1 ELSE c, td |-> TRUE, ex |-> e]
    ELSE [count |-> c - 1, td |-> FALSE, ex |-> Exec(v)]

ReleaseAtOrBelowZero(c, v, snap, fail) ==
    LET c2 == c - 1
    IN IF c2 <= 0
       THEN [count |-> c2, td |-> TRUE, ex |-> VixTeardown(Exec(v), snap, fail)]
       ELSE [count |-> c2, td |-> FALSE, ex |-> Exec(v)]

\* Machine.release: the new count, whether teardown() was invoked, and the
\* backend context after it
Release(c, v, snap, fail) ==
    LET c2 == c - 1
    IN IF c2 = 0
       THEN [count |-> c2, td |-> TRUE, ex |-> VixTeardown(Exec(v), snap, fail)]
       ELSE [count |-> c2, td |-> FALSE, ex |-> Exec(v)]


\* ------------------------------------------------------------ pytest hooks
DiscoverWithoutEmptyCheck(pat, old, found) ==
    IF ~pat THEN [exit |-> TRUE, machines |-> old]
    ELSE [exit |-> FALSE, machines |-> old \o SetToSeq(found)]

\* pytest_sessionstart: pytest.exit() when --pattern is absent or nothing was
\* found; otherwise one VixMachine per globbed path is appended to `machines`
Discover(pat, old, found) ==
    IF ~pat THEN [exit |-> TRUE, machines |-> old]
    ELSE LET ms == old \o SetToSeq(found)
         IN [exit |-> Len(ms) = 0, machines |-> ms]

AcquireFirstOnly(cnt, ms) ==
    IF ms = <<>> THEN cnt ELSE [cnt EXCEPT ![Head(ms)] = Acquire(@)]

\* the loop of pytest_generate_tests: machine.acquire() for each machine of the list
RECURSIVE AcquireAll(_, _)
AcquireAll(cnt, ms) ==
    IF ms = <<>> THEN cnt
    ELSE AcquireAll([cnt EXCEPT ![Head(ms)] = Acquire(@)], Tail(ms))

TagPerItem(u) == u

\* marks = [pytest.mark.xdist_group(machine.name)]: the serialization tag of an item
Tag(u) == u[2]

Swallow(err) == "none"

\* an exception raised inside a hook leaves the hook: there is no try/except
Propagate(err) == err

CallHookInitFollowsSuccess(init, v, snap, fail) ==
    LET e0 == Exec(v)
        e1 == IF ~init THEN VixSetup(e0, fail) ELSE e0
        e2 == IF e1.err = "none" THEN VixReset(e1, snap, fail) ELSE e1
    IN [initialized |-> e2.err = "none", ex |-> e2]

CallHookInitFirst(init, v, snap, fail) ==
    LET e0 == Exec(v)
        e1 == IF ~init THEN VixSetup(e0, fail) ELSE e0
        e2 == IF e1.err = "none" THEN VixReset(e1, snap, fail) ELSE e1
    IN [initialized |-> TRUE, ex |-> e2]

CallHookResetElse(init, v, snap, fail) ==
    LET e0 == Exec(v)
        e1 == IF ~init THEN VixSetup(e0, fail) ELSE VixReset(e0, snap, fail)
        init2 == IF ~init THEN e1.err = "none" ELSE init
    IN [initialized |-> init2, ex |-> e1]

\* body of pytest_runtest_call for an item that has a target
CallHook(init, v, snap, fail) ==
    LET e0 == Exec(v)
        e1 == IF ~init THEN VixSetup(e0, fail) ELSE e0
        init2 == IF ~init THEN e1.err = "none" ELSE init
        e2 == IF e1.err = "none" THEN VixReset(e1, snap, fail) ELSE e1
    IN [initialized |-> init2, ex |-> e2]

\* progress of an item: "collected" (not run yet), "body" (the body is running),
\* "passed" / "failed" (the body has ended), "callfailed" (pytest_runtest_call
\* raised), "finished" (pytest_runtest_teardown is over)
NewItem == [st |-> "collected", released |-> 0]

\* the record of a call of acquire() / release(): how many calls were made, whether
\* a release ever outnumbered the acquires, and the last call with the count it
\* found, whether it invoked teardown(), the exception it raised, and the backend
\* calls teardown() issued with the error the backend answered
Acquired(a, c) ==
    [a EXCEPT !.acq = @ + 1, !.op = "acquire", !.pre = c, !.td = FALSE, !.err = "none",
              !.tdOps = <<>>, !.tdErr = "none"]

Released(a, c, r) ==
    [a EXCEPT !.rel = @ + 1, !.under = @ \/ (a.rel + 1 > a.acq),
              !.op = "release", !.pre = c, !.td = r.td, !.err = Propagate(r.ex.err),
              !.tdOps = r.ex.ops, !.tdErr = r.ex.err]

UsesTargetAlways(f) == TRUE

\* "target" in metafunc.fixturenames
UsesTarget(f) == fixturenames[f]

StoreOnClass(attr, m, val) == [n \in DOMAIN attr |-> val]

\* self.count / machine.initialized are assigned on the instance: the attribute of
\* machine m gets the value, the other machines keep theirs
Store(attr, m, val) == [attr EXCEPT ![m] = val]

HasTarget(u) == u[2] # NoTarget         \* "target" in item.funcargs
Active(u) == items[u].st \in {"body", "passed", "failed", "callfailed"}
Started(u) == Active(u) \/ items[u].st = "finished"
ItemsOf(m) == {u \in DOMAIN items : u[2] = m}

\* the scheduler (xdist loadgroup) never overlaps two items carrying the same tag
MayStart(u) ==
    \A v \in DOMAIN items \ {u} :
        (HasTarget(u) /\ HasTarget(v) /\ Active(v)) => Tag(v) # Tag(u)

FailPointsCall == 0..5       \* setup issues up to 2 backend calls, reset up to 3
FailPointsTeardown == 0..1   \* teardown issues at most 1

Init ==
    /\ phase = "start"
    /\ pattern \in BOOLEAN
    /\ globbed \in SUBSET Paths
    /\ snapshotOpt \in BOOLEAN
    /\ machines = <<>>
    /\ count = <<>>
    /\ initialized = <<>>
    /\ vm \in [Paths -> [running : BOOLEAN, dirty : {TRUE}, used : {FALSE}]]
    /\ fixturenames \in [Funcs -> BOOLEAN]
    /\ generated = {}
    /\ items = <<>>
    /\ teardowns = [m \in Paths |-> 0]
    /\ lastCall = [m \in Paths |-> NoLast]
    /\ leakReported = {}
    /\ api = [m \in Paths |-> NoApi]

\* pytest_sessionstart
SessionStart ==
    /\ phase = "start"
    /\ LET d == Discover(pattern, machines, globbed)
       IN /\ machines' = d.machines
          /\ count' = [m \in Range(d.machines) |-> 0]
          /\ initialized' = [m \in Range(d.machines) |-> FALSE]
          /\ phase' = IF d.exit THEN "aborted" ELSE "collect"
    /\ UNCHANGED <<pattern, globbed, snapshotOpt, vm, fixturenames, generated,
                   items, teardowns, lastCall, leakReported, api>>

\* pytest_generate_tests
GenerateTests(f) ==
    /\ phase = "collect"
    /\ f \notin generated
    /\ generated' = generated \cup {f}
    /\ IF ~UsesTarget(f)
       THEN /\ items' = items @@ (<<f, NoTarget>> :> NewItem)
            /\ UNCHANGED <<count, api>>
       ELSE /\ count' = AcquireAll(count, machines)
            /\ api' = [m \in Paths |-> IF m \in Pool THEN Acquired(api[m], count[m]) ELSE api[m]]
            /\ items' = items @@ [u \in {<<f, machines[i]>> : i \in DOMAIN machines} |-> NewItem]
    /\ UNCHANGED <<phase, pattern, globbed, snapshotOpt, machines, initialized, vm,
                   fixturenames, teardowns, lastCall, leakReported>>

\* collection is over: the run of the items begins
CollectionFinish ==
    /\ phase = "collect"
    /\ generated = Funcs
    /\ phase' = "run"
    /\ UNCHANGED <<pattern, globbed, snapshotOpt, machines, count, initialized, vm,
                   fixturenames, generated, items, teardowns, lastCall, leakReported, api>>

\* pytest_runtest_call, then (when it did not raise) the start of the unit body
RuntestCall(u, fail) ==
    /\ phase = "run"
    /\ u \in DOMAIN items
    /\ items[u].st = "collected"
    /\ MayStart(u)
    /\ IF ~HasTarget(u)
       THEN /\ items' = [items EXCEPT ![u].st = "body"]
            /\ UNCHANGED <<initialized, vm, lastCall>>
       ELSE LET m == u[2]
                r == CallHook(initialized[m], vm[m], snapshotOpt, fail)
                out == Propagate(r.ex.err)
            IN /\ initialized' = Store(initialized, m, r.initialized)
               /\ vm' = [vm EXCEPT ![m] = After(@, r.ex)]
               /\ lastCall' = [lastCall EXCEPT ![m] =
                                 [ops |-> r.ex.ops, err |-> r.ex.err,
                                  wasInit |-> initialized[m], unit |-> u]]
               /\ items' = [items EXCEPT ![u].st = IF out = "none" THEN "body" ELSE "callfailed"]
    /\ UNCHANGED <<phase, pattern, globbed, snapshotOpt, machines, count,
                   fixturenames, generated, teardowns, leakReported, api>>

\* item.runtest(): the unit body, which may do anything to its machine
Body(u, outcome, running2) ==
    /\ phase = "run"
    /\ u \in DOMAIN items
    /\ items[u].st = "body"
    /\ items' = [items EXCEPT ![u].st = outcome]
    /\ IF HasTarget(u)
       THEN vm' = [vm EXCEPT ![u[2]] = [running |-> running2, dirty |-> TRUE, used |-> TRUE]]
       ELSE vm' = vm
    /\ UNCHANGED <<phase, pattern, globbed, snapshotOpt, machines, count, initialized,
                   fixturenames, generated, teardowns, lastCall, leakReported, api>>

RuntestTeardownPassedOnly(u, fail) ==
    /\ phase = "run"
    /\ u \in DOMAIN items
    /\ items[u].st \in {"passed", "failed", "callfailed"}
    /\ IF ~HasTarget(u) \/ items[u].st # "passed"
       THEN /\ items' = [items EXCEPT ![u].st = "finished"]
            /\ lastCall' = [m \in Paths |-> IF m = u[2] THEN NoLast ELSE lastCall[m]]
            /\ UNCHANGED <<count, vm, teardowns, api>>
       ELSE LET m == u[2]
                r == Release(count[m], vm[m], snapshotOpt, fail)
            IN /\ count' = Store(count, m, r.count)
               /\ vm' = [vm EXCEPT ![m] = After(@, r.ex)]
               /\ teardowns' = [teardowns EXCEPT ![m] = @ + (IF r.td THEN 1 ELSE 0)]
               /\ api' = [api EXCEPT ![m] = Released(@, count[m], r)]
               /\ lastCall' = [lastCall EXCEPT ![m] = NoLast]
               /\ items' = [items EXCEPT ![u].st = "finished", ![u].released = @ + 1]
    /\ UNCHANGED <<phase, pattern, globbed, snapshotOpt, machines, initialized,
                   fixturenames, generated, leakReported>>

\* pytest_runtest_teardown
RuntestTeardown(u, fail) ==
    /\ phase = "run"
    /\ u \in DOMAIN items
    /\ items[u].st \in {"passed", "failed", "callfailed"}
    /\ IF ~HasTarget(u)
       THEN /\ items' = [items EXCEPT ![u].st = "finished"]
            /\ UNCHANGED <<count, vm, teardowns, lastCall, api>>
       ELSE LET m == u[2]
                r == Release(count[m], vm[m], snapshotOpt, fail)
            IN /\ count' = Store(count, m, r.count)
               /\ vm' = [vm EXCEPT ![m] = After(@, r.ex)]
               /\ teardowns' = [teardowns EXCEPT ![m] = @ + (IF r.td THEN 1 ELSE 0)]
               /\ api' = [api EXCEPT ![m] = Released(@, count[m], r)]
               /\ lastCall' = [lastCall EXCEPT ![m] = NoLast]
               /\ items' = [items EXCEPT ![u].st = "finished", ![u].released = @ + 1]
    /\ UNCHANGED <<phase, pattern, globbed, snapshotOpt, machines, initialized,
                   fixturenames, generated, leakReported>>

\* end of the session, between two items; items still "collected" were never run
\* (deselected with -k / -m, or the run stopped early with -x).  The plugin
\* implements no pytest_sessionfinish, so nothing inspects the counts.
SessionFinish ==
    /\ phase = "run"
    /\ \A u \in DOMAIN items : ~Active(u)
    /\ phase' = "finished"
    /\ leakReported' = leakReported
    /\ UNCHANGED <<pattern, globbed, snapshotOpt, machines, count, initialized, vm,
                   fixturenames, generated, items, teardowns, lastCall, api>>

Units == Funcs \X (Paths \cup {NoTarget})

Next ==
    \/ SessionStart
    \/ \E f \in Funcs : GenerateTests(f)
    \/ CollectionFinish
    \/ \E u \in Units, fail \in FailPointsCall : RuntestCall(u, fail)
    \/ \E u \in Units, outcome \in {"passed", "failed"}, r \in BOOLEAN : Body(u, outcome, r)
    \/ \E u \in Units, fail \in FailPointsTeardown : RuntestTeardown(u, fail)
    \/ SessionFinish

Spec == Init /\ [][Next]_vars

\* ---------------------------------------------------- direct use of Machine
ApiInit ==
    /\ phase = "api"
    /\ pattern = TRUE
    /\ globbed = Paths
    /\ snapshotOpt \in BOOLEAN
    /\ machines = SetToSeq(Paths)
    /\ count = [m \in Paths |-> 0]
    /\ initialized = [m \in Paths |-> FALSE]
    /\ vm \in [Paths -> [running : BOOLEAN, dirty : {TRUE}, used : {FALSE}]]
    /\ fixturenames = [f \in Funcs |-> FALSE]
    /\ generated = {}
    /\ items = <<>>
    /\ teardowns = [m \in Paths |-> 0]
    /\ lastCall = [m \in Paths |-> NoLast]
    /\ leakReported = {}
    /\ api = [m \in Paths |-> NoApi]

\* machine.acquire() called directly
ApiAcquire(m) ==
    /\ phase = "api"
    /\ api[m].acq + api[m].rel < MaxApiCalls
    /\ count' = Store(count, m, Acquire(count[m]))
    /\ api' = [api EXCEPT ![m] = Acquired(@, count[m])]
    /\ UNCHANGED <<phase, pattern, globbed, snapshotOpt, machines, initialized, vm,
                   fixturenames, generated, items, teardowns, lastCall, leakReported>>

\* machine.release() called directly
ApiRelease(m, fail) ==
    /\ phase = "api"
    /\ api[m].acq + api[m].rel < MaxApiCalls
    /\ LET r == Release(count[m], vm[m], snapshotOpt, fail)
       IN /\ count' = Store(count, m, r.count)
          /\ vm' = [vm EXCEPT ![m] = After(@, r.ex)]
          /\ teardowns' = [teardowns EXCEPT ![m] = @ + (IF r.td THEN 1 ELSE 0)]
          /\ api' = [api EXCEPT ![m] = Released(@, count[m], r)]
    /\ UNCHANGED <<phase, pattern, globbed, snapshotOpt, machines, initialized,
                   fixturenames, generated, items, lastCall, leakReported>>

ApiNext ==
    \/ \E m \in Paths : ApiAcquire(m)
    \/ \E m \in Paths, fail \in FailPointsTeardown : ApiRelease(m, fail)

ApiSpec == ApiInit /\ [][ApiNext]_vars

TypeOK ==
    /\ phase \in {"start", "collect", "run", "finished", "aborted", "api"}
    /\ DOMAIN count = Pool
    /\ DOMAIN initialized = Pool
    /\ \A m \in Pool : count[m] \in Int /\ initialized[m] \in BOOLEAN
    /\ DOMAIN items \subseteq Units

\* ============================================================== properties
TargetItems == {u \in DOMAIN items : HasTarget(u)}
Finished(m) == {u \in ItemsOf(m) : items[u].st = "finished"}
Last(q) == q[Len(q)]

\* C1 (as amended): teardown() is invoked by exactly those calls that bring the
\* count from 1 to 0, once per such call, and by no other call.
C1_TeardownAtEachOneToZero ==
    [][\A m \in Paths :
          /\ teardowns'[m] \in {teardowns[m], teardowns[m] + 1}
          /\ (teardowns'[m] = teardowns[m] + 1) <=> (count[m] = 1 /\ count'[m] = 0)]_vars

\* C1 witness: acquires and releases were interleaved without the releases ever
\* outnumbering the acquires, the count is back at 0, and teardown ran twice.
C1_Witness ==
    \E m \in Paths : ~api[m].under /\ count[m] = 0 /\ api[m].rel = 2 /\ teardowns[m] = 2

\* C1 (original): whenever the releases never outnumbered the acquires and the
\* count is back at 0, teardown() has been invoked exactly once.
C1_Original ==
    \A m \in Paths :
        (~api[m].under /\ api[m].acq > 0 /\ count[m] = 0) => teardowns[m] = 1

\* C2: a release() that finds the count at 0 raises Underflow, invokes no
\* teardown() and leaves no negative count.
C2_UnderflowRaises ==
    \A m \in Paths :
        (api[m].op = "release" /\ api[m].pre = 0) =>
            (api[m].err = "Underflow" /\ ~api[m].td /\ count[m] >= 0)

\* C3: every instance of a machine is acquired before any unit runs (the count
\* equals the number of instances until the first one of them runs), teardown
\* fires at most once, and it has fired exactly when all the instances that were
\* generated for the machine have been released.
C3_TeardownAfterLastInstance ==
    \A m \in Pool :
        /\ (\A u \in ItemsOf(m) : ~Started(u)) => count[m] = Cardinality(ItemsOf(m))
        /\ (\E u \in ItemsOf(m) : Started(u)) => generated = Funcs
        /\ teardowns[m] <= 1
        /\ (teardowns[m] = 1) <=> (ItemsOf(m) # {} /\ Finished(m) = ItemsOf(m))

\* C3 witness: pool {A, B}; every instance of A has been released and A was torn
\* down once, while an instance of B is still running.
C3_Witness ==
    /\ Pool = Paths
    /\ \E m \in Pool :
        /\ Cardinality(ItemsOf(m)) = NumFuncs
        /\ Finished(m) = ItemsOf(m)
        /\ teardowns[m] = 1
        /\ \E n \in Pool \ {m} : \E u \in ItemsOf(n) : items[u].st = "body" /\ teardowns[n] = 0

\* C4: with a baseline snapshot configured, a unit body starts on a machine that
\* is in the baseline state.
C4_BodyStartsFromBaseline ==
    [][\A u \in TargetItems :
          (snapshotOpt /\ items[u].st = "collected" /\ items'[u].st = "body")
              => ~vm'[u[2]].dirty]_vars

\* C4 witness: a body runs on a clean machine that an earlier body has modified.
C4_Witness ==
    \E u \in TargetItems :
        /\ snapshotOpt
        /\ items[u].st = "body"
        /\ vm[u[2]].used
        /\ ~vm[u[2]].dirty
        /\ Finished(u[2]) # {}

\* what the spec expects of a successful pre-unit hook on a machine that was
\* (not) initialized and (not) running when the hook began
ExpectedSetup(init, running) ==
    IF init THEN <<>>
    ELSE (IF running THEN <<>> ELSE << <<"setup", "power_on">> >>)
         \o << <<"setup", "wait_for_tools">> >>

ExpectedReset(init, running, snap) ==
    (IF snap THEN << <<"reset", "snapshot_revert">> >> ELSE <<>>)
    \o (IF ~snap /\ (running \/ ~init) THEN <<>> ELSE << <<"reset", "power_on">> >>)
    \o << <<"reset", "wait_for_tools">> >>

\* C5: a successful pre-unit hook issues the first-use setup only when the
\* machine was not initialized, then always the per-use reset (revert if a
\* baseline is configured, power-on if not running, readiness wait) as its last
\* step, and leaves the machine initialized.
C5_ResetIsLastStep ==
    [][\A u \in TargetItems :
          (items[u].st = "collected" /\ items'[u].st = "body") =>
              LET m == u[2]
              IN /\ lastCall'[m].ops = ExpectedSetup(initialized[m], vm[m].running)
                                       \o ExpectedReset(initialized[m], vm[m].running, snapshotOpt)
                 /\ Last(lastCall'[m].ops) = <<"reset", "wait_for_tools">>
                 /\ initialized'[m]]_vars

\* C5 witness: the very first hook on a machine set it up and then reset it.
C5_Witness ==
    \E u \in TargetItems :
        /\ items[u].st = "body"
        /\ ~lastCall[u[2]].wasInit
        /\ Head(lastCall[u[2]].ops)[1] = "setup"
        /\ Last(lastCall[u[2]].ops) = <<"reset", "wait_for_tools">>

\* C6: the post-unit hook of an item releases its machine exactly once, whether
\* the body passed, the body failed or the pre-unit hook raised; no other step of
\* the run changes the count.
C6_ReleaseOncePerUnit ==
    [][/\ \A u \in TargetItems :
             (items[u].st \in {"passed", "failed", "callfailed"} /\ items'[u] # items[u]) =>
                 /\ items'[u].st = "finished"
                 /\ items'[u].released = 1
                 /\ count'[u[2]] = count[u[2]] - 1
       /\ \A u \in TargetItems :
             items[u].st \notin {"passed", "failed", "callfailed"} =>
                 items'[u].released = items[u].released
       /\ \A m \in Pool :
             (phase = "run" /\ count'[m] # count[m]) =>
                 \E u \in ItemsOf(m) : Active(u) /\ items'[u].st = "finished"]_vars

\* C6 witness: no pre-unit hook of the machine ever succeeded (it is still not
\* initialized), yet each of its units was released once and teardown was reached.
C6_Witness ==
    \E m \in Pool :
        /\ Cardinality(ItemsOf(m)) = NumFuncs
        /\ \A u \in ItemsOf(m) : items[u].st = "finished" /\ items[u].released = 1
        /\ ~initialized[m]
        /\ count[m] = 0
        /\ teardowns[m] = 1

\* C7: a unit body runs only after the pre-unit hook of that unit has completed
\* without error; a unit whose pre-unit hook raised is not running its body.
C7_NoBodyAfterFailedPreparation ==
    \A u \in TargetItems :
        LET c == lastCall[u[2]]
        IN /\ items[u].st \in {"body", "passed", "failed"} =>
                (c.unit = u /\ c.err = "none" /\ initialized[u[2]])
           /\ (c.unit = u /\ c.err # "none") => items[u].st = "callfailed"

\* C7 witness: the readiness wait of a pre-unit hook timed out and the unit is
\* abandoned without its body.
C7_Witness ==
    \E u \in TargetItems :
        /\ items[u].st = "callfailed"
        /\ lastCall[u[2]].unit = u
        /\ lastCall[u[2]].err = "ReadinessTimeout"

\* C8: with the pattern absent or matching nothing the session aborts at its
\* start and no hook ever touches a machine; whenever a later hook has run, the
\* pool is not empty.
C8_EmptyPoolAborts ==
    /\ (~pattern \/ globbed = {}) =>
            /\ phase \in {"start", "aborted"}
            /\ generated = {}
            /\ DOMAIN items = {}
            /\ machines = <<>>
            /\ \A m \in Paths : teardowns[m] = 0 /\ api[m] = NoApi /\ lastCall[m] = NoLast
    /\ (phase \in {"collect", "run", "finished"} \/ generated # {} \/ DOMAIN items # {})
            => Len(machines) > 0

\* C8 witness: the pattern was given, matched nothing, and the session aborted.
C8_Witness ==
    phase = "aborted" /\ pattern /\ globbed = {}

\* C9: while the body of a unit is running on a machine, no step sets up, resets
\* or tears down that machine, or changes its count or its VM.
C9_NoLifecycleDuringBody ==
    [][\A u \in TargetItems :
          (items[u].st = "body" /\ items'[u].st = "body") =>
              LET m == u[2]
              IN /\ lastCall'[m] = lastCall[m]
                 /\ teardowns'[m] = teardowns[m]
                 /\ initialized'[m] = initialized[m]
                 /\ count'[m] = count[m]
                 /\ vm'[m] = vm[m]]_vars

\* C9 witness: bodies run on two different machines at the same time, and one of
\* the machines has another unit waiting for its turn.
C9_Witness ==
    \E u \in TargetItems, v \in TargetItems :
        /\ u[2] # v[2]
        /\ items[u].st = "body"
        /\ items[v].st = "body"
        /\ \E w \in ItemsOf(u[2]) \ {u} : items[w].st = "collected"

\* C10: at the end of the session every machine whose count is not 0 has been
\* reported as a leak.
C10_LeakReported ==
    phase = "finished" => \A m \in Pool : count[m] # 0 => m \in leakReported

\* a pre-unit hook of item u has run in this step (successfully or not)
CallStep(u) == items[u].st = "collected" /\ items'[u].st \in {"body", "callfailed"}
\* the post-unit hook of item u has run in this step
TeardownStep(u) ==
    items[u].st \in {"passed", "failed", "callfailed"} /\ items'[u].st = "finished"

\* C11: setup and reset issue a power-on only when the machine is not running,
\* reset and teardown issue a revert only when a baseline snapshot is configured;
\* where the guard is false no backend call is made and no error arises from it.
C11_GuardedPowerOnAndRevert ==
    [][\A u \in TargetItems :
          LET m == u[2]
              ops == Range(lastCall'[m].ops)
              td == api'[m].tdOps
          IN /\ CallStep(u) =>
                  /\ (<<"setup", "power_on">> \in ops) <=>
                         (~initialized[m] /\ ~vm[m].running)
                  /\ (<<"reset", "power_on">> \in ops) =>
                         (snapshotOpt \/ (initialized[m] /\ ~vm[m].running))
                  /\ (<<"reset", "snapshot_revert">> \in ops) => snapshotOpt
                  /\ (initialized[m] /\ ~snapshotOpt) =>
                         /\ vm[m].running =>
                                lastCall'[m].ops = << <<"reset", "wait_for_tools">> >>
                         /\ ~vm[m].running =>
                                lastCall'[m].ops[1] = <<"reset", "power_on">>
                  /\ lastCall'[m].err # "none" => lastCall'[m].ops # <<>>
             /\ (TeardownStep(u) /\ teardowns'[m] # teardowns[m]) =>
                  /\ td = IF snapshotOpt THEN << <<"teardown", "snapshot_revert">> >> ELSE <<>>
                  /\ ~snapshotOpt => (api'[m].tdErr = "none" /\ api'[m].err = "none"
                                      /\ vm'[m] = vm[m])]_vars

\* C11 witness: on a running, initialized machine without a baseline the pre-unit
\* hook made a single backend call, the readiness wait, and the later teardown
\* of the machine made none.
C11_Witness ==
    \E m \in Pool :
        /\ ~snapshotOpt
        /\ teardowns[m] = 1
        /\ api[m].tdOps = <<>>
        /\ api[m].err = "none"
        /\ \E n \in Pool \ {m} :
              /\ lastCall[n].wasInit
              /\ lastCall[n].ops = << <<"reset", "wait_for_tools">> >>
              /\ lastCall[n].err = "none"

\* C12: for one machine, every acquire precedes its first pre-unit hook; an item
\* goes through pre-unit preparation, then its body, then the release, in this
\* order; releases happen only in post-unit hooks; teardown happens at most once,
\* at the release that leaves no instance of the machine unreleased.
C12_AcquiresThenUnits ==
    [][/\ \A m \in Pool :
             /\ api'[m].acq # api[m].acq => \A u \in ItemsOf(m) : ~Started(u)
             /\ api'[m].rel # api[m].rel =>
                    \E u \in ItemsOf(m) : TeardownStep(u) /\ api'[m].rel = api[m].rel + 1
             /\ teardowns'[m] # teardowns[m] =>
                    /\ teardowns[m] = 0
                    /\ api'[m].rel = api[m].rel + 1
                    /\ api'[m].rel = api'[m].acq
       /\ \A u \in TargetItems :
             items'[u].st # items[u].st =>
                 \/ CallStep(u) /\ (items'[u].st = "body" <=> lastCall'[u[2]].err = "none")
                 \/ items[u].st = "body" /\ items'[u].st \in {"passed", "failed"}
                 \/ TeardownStep(u)]_vars

\* C12 witness: the second unit of a machine runs its body after the first one
\* went through preparation, body and release.
C12_Witness ==
    \E m \in Pool :
        /\ api[m].acq = NumFuncs
        /\ api[m].rel = 1
        /\ vm[m].used
        /\ \E u \in ItemsOf(m) : items[u].st \in {"passed", "failed"}

\* C13: a machine is created with initialized false, and no step sets the flag
\* of a machine back to false once it is true.
C13_InitializedOnlyRises ==
    [][\A m \in DOMAIN initialized' :
          IF m \in DOMAIN initialized
          THEN initialized[m] => initialized'[m]
          ELSE ~initialized'[m]]_vars

\* C13 witness: the flag is true although a later pre-unit hook on the machine
\* has failed.
C13_Witness ==
    \E u \in TargetItems :
        /\ items[u].st = "callfailed"
        /\ lastCall[u[2]].unit = u
        /\ lastCall[u[2]].wasInit
        /\ lastCall[u[2]].err # "none"
        /\ initialized[u[2]]

\* C14: in a session driven by the hooks no machine's count is ever negative.
C14_CountNeverNegative ==
    \A m \in Pool : count[m] >= 0

\* C14 witness: every instance of a machine has been released and its count is
\* back at 0.
C14_Witness ==
    \E m \in Pool : api[m].acq = NumFuncs /\ api[m].rel = NumFuncs /\ count[m] = 0

\* C15: when the teardown triggered by the final release fails, the count is 0
\* all the same and release() raised the error of the teardown.
C15_FailedTeardownKeepsBookkeeping ==
    \A m \in Pool :
        api[m].tdErr # "none" =>
            /\ api[m].op = "release"
            /\ api[m].td
            /\ count[m] = 0
            /\ api[m].rel = api[m].acq
            /\ api[m].err = api[m].tdErr

\* C15 witness: the revert of the teardown of the final release raised.
C15_Witness ==
    \E m \in Pool :
        /\ api[m].tdErr = "BackendError"
        /\ api[m].tdOps = << <<"teardown", "snapshot_revert">> >>
        /\ api[m].pre = 1
        /\ count[m] = 0

\* no item of machine m is between its pre-unit and its post-unit hook
Idle(m) == \A w \in ItemsOf(m) : ~Active(w)

\* C16: a pre-unit hook (successful or failing) or a release on one machine leaves
\* the count, the initialized flag and the VM of every other machine unchanged,
\* leaves the session running and leaves the waiting units of every other idle
\* machine free to start; an acquire adds 1 to the count of its own machine only.
C16_LifecycleIsPerMachine ==
    [][/\ \A u \in TargetItems :
             (CallStep(u) \/ TeardownStep(u)) =>
                 /\ \A n \in Pool \ {u[2]} :
                        /\ count'[n] = count[n]
                        /\ initialized'[n] = initialized[n]
                        /\ vm'[n] = vm[n]
                        /\ teardowns'[n] = teardowns[n]
                 /\ phase' = "run"
                 /\ \A v \in TargetItems :
                        (v[2] # u[2] /\ items[v].st = "collected" /\ Idle(v[2]))
                            => MayStart(v)'
       /\ generated' # generated =>
             /\ \A m \in Pool : count'[m] \in {count[m], count[m] + 1}
             /\ initialized' = initialized]_vars

\* C16 witness: the pre-unit hook of a unit failed on one machine, which is still
\* not initialized, while a unit of another machine runs its body.
C16_Witness ==
    \E u \in TargetItems, v \in TargetItems :
        /\ u[2] # v[2]
        /\ items[u].st = "callfailed"
        /\ lastCall[u[2]].err = "ReadinessTimeout"
        /\ ~initialized[u[2]]
        /\ items[v].st = "body"
        /\ initialized[v[2]]
        /\ count[u[2]] = NumFuncs

\* C17: teardown() issues nothing but the revert to the baseline, never a
\* power-off: with a baseline it issues the revert, after which the machine is
\* powered off and in the baseline state; without one it issues no backend call
\* and leaves the VM, its power state included, as it was.
C17_TeardownOnlyReverts ==
    [][\A m \in Pool :
          teardowns'[m] # teardowns[m] =>
              /\ \A i \in DOMAIN api'[m].tdOps :
                     api'[m].tdOps[i] = <<"teardown", "snapshot_revert">>
              /\ snapshotOpt =>
                     /\ Len(api'[m].tdOps) = 1
                     /\ api'[m].tdErr = "none" => (~vm'[m].running /\ ~vm'[m].dirty)
              /\ ~snapshotOpt =>
                     /\ api'[m].tdOps = <<>>
                     /\ vm'[m] = vm[m]]_vars

\* C17 witness: a machine without a baseline was torn down and is still running.
C17_Witness ==
    \E m \in Pool :
        /\ ~snapshotOpt
        /\ teardowns[m] = 1
        /\ vm[m].running
        /\ vm[m].used

\* C18: the count of a machine is the number of instances generated for it minus
\* the number of them whose post-unit hook has run; teardown has fired exactly
\* when every generated instance has reached its post-unit hook, so a session
\* that ends with an instance that never ran ends without the teardown.
C18_CountIsOutstandingInstances ==
    \A m \in Pool :
        /\ count[m] = Cardinality(ItemsOf(m)) - Cardinality(Finished(m))
        /\ (teardowns[m] > 0) <=> (ItemsOf(m) # {} /\ Finished(m) = ItemsOf(m))
        /\ (phase = "finished" /\ \E u \in ItemsOf(m) : items[u].st = "collected")
               => (teardowns[m] = 0 /\ count[m] > 0)

\* C18 witness: the session ended; one instance of a machine ran and was
\* released, another never ran, and the machine was not torn down.
C18_Witness ==
    \E m \in Pool :
        /\ phase = "finished"
        /\ \E u \in ItemsOf(m) : items[u].st = "collected"
        /\ \E u \in ItemsOf(m) : items[u].st = "finished"
        /\ count[m] = 1
        /\ teardowns[m] = 0

\* C19: a pre-unit hook runs setup exactly when the machine is not initialized;
\* it leaves the flag false when setup raised, and true when setup succeeded,
\* also when the reset that followed raised.
C19_InitializedMeansSetupSucceeded ==
    [][\A u \in TargetItems :
          CallStep(u) =>
              LET m == u[2]
                  c == lastCall'[m]
                  setupRan == \E i \in DOMAIN c.ops : c.ops[i][1] = "setup"
                  setupRaised == c.err # "none" /\ Last(c.ops)[1] = "setup"
              IN /\ setupRan <=> ~initialized[m]
                 /\ initialized'[m] <=> (initialized[m] \/ ~setupRaised)]_vars

\* C19 witness: on a machine that was not initialized setup succeeded and the
\* reset raised; the machine is initialized.
C19_Witness ==
    \E u \in TargetItems :
        /\ items[u].st = "callfailed"
        /\ lastCall[u[2]].unit = u
        /\ ~lastCall[u[2]].wasInit
        /\ Last(lastCall[u[2]].ops)[1] = "reset"
        /\ initialized[u[2]]

MachineState == <<count, initialized, vm, teardowns, lastCall, api>>

\* C20: the parametrization of a function without the target fixture, and the
\* pre-unit hook, body and post-unit hook of its item, leave every machine as it
\* was and create no instance bound to a machine.
C20_NoTargetNoEffect ==
    [][/\ \A u \in DOMAIN items :
             (~HasTarget(u) /\ items'[u] # items[u]) => MachineState' = MachineState
       /\ \A f \in Funcs :
             (f \notin generated /\ f \in generated' /\ ~fixturenames[f]) =>
                 /\ MachineState' = MachineState
                 /\ \A m \in Paths : <<f, m>> \notin DOMAIN items']_vars

\* C20 witness: the item of a function without the target fixture has finished,
\* and a machine with outstanding instances has not been touched by any hook.
C20_Witness ==
    \E u \in DOMAIN items :
        /\ ~HasTarget(u)
        /\ items[u].st = "finished"
        /\ \E m \in Pool :
              /\ count[m] = NumFuncs - 1
              /\ count[m] > 0
              /\ ~initialized[m]
              /\ \A w \in ItemsOf(m) : items[w].st = "collected"
====
